---- MODULE Spec2Model ----
(***************************************************************************)
(* Model of src/src/utils/KartCollision.js: the collider factories         *)
(* (buildCollider, buildColliderFromMeshes) and the two resolvers          *)
(* (checkCollision, checkSimpleCollision) with the module-level scratch    *)
(* objects they share.                                                     *)
(*                                                                         *)
(* Numbers are fixed point: 1.0 world unit is Unit, so 0.1 is Tenth.  All  *)
(* geometry is chosen on the 0.1 grid, triangles lie in axis-aligned       *)
(* planes and the collider transform is a translation, so that every       *)
(* square root and normalisation the code takes is exact (GeometryExact    *)
(* states this and is checked over the reachable states).                  *)
(***************************************************************************)
EXTENDS Integers, Sequences, FiniteSets, TLC

\* ---------------------------------------------------------------- bounds
MaxTris == 2
MaxNodes == 2
MaxFilters == 1

\* ------------------------------------------------------------ fixed point
\* two decimal places: 1.0 is Unit, 0.1 is Tenth
Unit == 10 * 10
Tenth == Unit \div 10

Abs(n) == IF n < 0 THEN -n ELSE n
Sign(n) == IF n < 0 THEN -1 ELSE IF n > 0 THEN 1 ELSE 0
Min2(a, b) == IF a <= b THEN a ELSE b
Max2(a, b) == IF a >= b THEN a ELSE b

\* ------------------------------------------------------------- Vector3
Vec(x, y, z) == [x |-> x, y |-> y, z |-> z]
\* a point given in tenths of a world unit
P(x, y, z) == Vec(x * Tenth, y * Tenth, z * Tenth)
Zero == Vec(0, 0, 0)

VAdd(a, b) == Vec(a.x + b.x, a.y + b.y, a.z + b.z)
VSub(a, b) == Vec(a.x - b.x, a.y - b.y, a.z - b.z)
VNeg(a) == Vec(-a.x, -a.y, -a.z)
AddScalar(a, s) == Vec(a.x + s, a.y + s, a.z + s)
VMin(a, b) == Vec(Min2(a.x, b.x), Min2(a.y, b.y), Min2(a.z, b.z))
VMax(a, b) == Vec(Max2(a.x, b.x), Max2(a.y, b.y), Max2(a.z, b.z))
\* fixed-point product of two Unit-scaled quantities
Mul(a, b) == (a * b) \div Unit
Dot(a, b) == Mul(a.x, b.x) + Mul(a.y, b.y) + Mul(a.z, b.z)
Cross(a, b) ==
    Vec(a.y * b.z - a.z * b.y, a.z * b.x - a.x * b.z, a.x * b.y - a.y * b.x)
LengthSq(a) == a.x * a.x + a.y * a.y + a.z * a.z
DistanceToSquared(a, b) == LengthSq(VSub(a, b))
AxisAligned(a) ==
    Cardinality({c \in {a.x, a.y, a.z} : c # 0}) <= 1
\* Vector3.length(): exact for axis-aligned vectors
Length(a) == Abs(a.x) + Abs(a.y) + Abs(a.z)
\* Vector3.normalize() is divideScalar(length() || 1): the zero vector stays zero
Normalize(a) ==
    IF AxisAligned(a)
    THEN Vec(Sign(a.x) * Unit, Sign(a.y) * Unit, Sign(a.z) * Unit)
    ELSE Vec((a.x * Unit) \div Length(a), (a.y * Unit) \div Length(a),
             (a.z * Unit) \div Length(a))
\* v + d * s, d a Unit-scaled direction, s a length
AddScaledVector(v, d, s) == Vec(v.x + Mul(d.x, s), v.y + Mul(d.y, s), v.z + Mul(d.z, s))

\* ------------------------------------------------------------- Matrix4
\* the collider's world transform, a translation
Translate(t) == [t |-> t]
Identity == Translate(Zero)
Invert(m) == Translate(VNeg(m.t))
ApplyMatrix4(v, m) == VAdd(v, m.t)

\* ---------------------------------------------------------------- Box3
Box(mn, mx) == [min |-> mn, max |-> mx]
\* Box3.intersectsBox: closed intervals on the three axes
IntersectsBox(a, b) ==
    ~(\/ b.max.x < a.min.x \/ b.min.x > a.max.x
      \/ b.max.y < a.min.y \/ b.min.y > a.max.y
      \/ b.max.z < a.min.z \/ b.min.z > a.max.z)

\* ------------------------------------------------------------ triangles
Tri(a, b, c) == [a |-> a, b |-> b, c |-> c]
TriBox(t) == Box(VMin(t.a, VMin(t.b, t.c)), VMax(t.a, VMax(t.b, t.c)))
\* Triangle.getNormal: normalize((c - b) x (a - b)), zero for a degenerate triangle
GetNormal(t) == Normalize(Cross(VSub(t.c, t.b), VSub(t.a, t.b)))
\* Triangle.getMidpoint: (a + b + c) / 3
GetMidpoint(t) ==
    Vec((t.a.x + t.b.x + t.c.x) \div 3, (t.a.y + t.b.y + t.c.y) \div 3,
        (t.a.z + t.b.z + t.c.z) \div 3)
\* the axis the triangle's plane is perpendicular to
PlaneAxis(t) ==
    IF t.a.x = t.b.x /\ t.b.x = t.c.x THEN "x"
    ELSE IF t.a.y = t.b.y /\ t.b.y = t.c.y THEN "y" ELSE "z"
\* Triangle.closestPointToPoint for a point whose projection on the plane
\* falls inside the triangle: the projection
ClosestPointToPoint(t, p) ==
    IF PlaneAxis(t) = "x" THEN Vec(t.a.x, p.y, p.z)
    ELSE IF PlaneAxis(t) = "y" THEN Vec(p.x, t.a.y, p.z)
    ELSE Vec(p.x, p.y, t.a.z)
\* ExtendedTriangle.closestPointToSegment (three-mesh-bvh): the closest pair
\* among the edges against the segment, then the start, then the end against
\* the triangle, each replacing the pair only when strictly closer.  Where the
\* segment's projection lies inside the triangle the edges are farther than an
\* end point, so the start wins unless the end is strictly closer.
ClosestPointToSegment(t, seg) ==
    LET ps == ClosestPointToPoint(t, seg.start)
        pe == ClosestPointToPoint(t, seg.end)
    IN  IF DistanceToSquared(seg.end, pe) < DistanceToSquared(seg.start, ps)
        THEN [distance |-> Length(VSub(seg.end, pe)), triPoint |-> pe,
              capsulePoint |-> seg.end]
        ELSE [distance |-> Length(VSub(seg.start, ps)), triPoint |-> ps,
              capsulePoint |-> seg.start]

\* Scene geometry (world space, tenths of a unit).  Each triangle is a right
\* triangle in an axis-aligned plane, wide enough that the karts of the model
\* stay over its interior.
WallE50 == Tri(P(50, -60, -60), P(50, -60, 120), P(50, 120, -60))
WallW36 == Tri(P(36, -60, -60), P(36, 120, -60), P(36, -60, 120))
WallN20 == Tri(P(-60, -60, 20), P(120, -60, 20), P(-60, 300, 20))
Ledge05 == Tri(P(-60, 5, -60), P(-60, 5, 600), P(300, 5, -60))
Bar08 == Tri(P(-60, 8, -60), P(300, 8, -60), P(-60, 8, 600))
Triangles == <<WallE50, WallW36, WallN20, Ledge05, Bar08>>

\* -------------------------------------------------------------- strings
\* a string is the sequence of its characters
UpperChars == <<"A", "D", "G", "L", "N", "O", "R", "U", "W">>
LowerChars == <<"a", "d", "g", "l", "n", "o", "r", "u", "w">>
LowerChar(c) ==
    IF \E i \in 1..Len(UpperChars) : UpperChars[i] = c
    THEN LowerChars[CHOOSE i \in 1..Len(UpperChars) : UpperChars[i] = c]
    ELSE c
\* String.prototype.toLowerCase
ToLowerCase(s) == [i \in 1..Len(s) |-> LowerChar(s[i])]
\* String.prototype.includes
Includes(s, sub) ==
    \E i \in 0..(Len(s) - Len(sub)) : \A j \in 1..Len(sub) : s[i + j] = sub[j]

\* ------------------------------------------------------ scene and meshes
Null == [null |-> TRUE]
\* a node of the scene graph: its name, whether it is a Mesh, and its
\* triangles in world space
Node(name, isMesh, tris) == [name |-> name, isMesh |-> isMesh, tris |-> tris]
SceneNodes ==
    { Node(<<"G", "r", "o", "u", "n", "d">>, TRUE, <<Ledge05>>),
      Node(<<"w", "a", "l", "l">>, TRUE, <<WallE50>>),
      Node(<<"G", "R", "O", "U", "N", "D", "w", "a", "l", "l">>, TRUE, <<WallW36>>),
      Node(<< >>, TRUE, <<WallN20>>),
      Node(<<"w", "a", "l", "l">>, FALSE, << >>) }
FilterNames ==
    { <<"g", "r", "o", "u", "n", "d">>, <<"W", "A", "L", "L">>, << >> }
\* the excludeNames default of buildCollider
DefaultExcludeNames == << <<"g", "r", "o", "u", "n", "d">> >>
\* the includeNames default of buildCollider
DefaultIncludeNames == << >>

SeqsUpTo(S, n) == UNION {[1..k -> S] : k \in 0..n}
Scenes == SeqsUpTo(SceneNodes, MaxNodes)
FilterLists == SeqsUpTo(FilterNames, MaxFilters)
\* a filter argument: given, or left out of the call
Given(names) == [given |-> TRUE, names |-> names]
Omitted == [given |-> FALSE, names |-> << >>]
FilterArgs == {Omitted} \cup {Given(l) : l \in FilterLists}

\* the collision meshes handed to buildColliderFromMeshes by the resolver runs
CollisionMeshes ==
    [i \in 1..Len(Triangles) |->
        Node(<<"c", "o", "l", "l", "i", "s", "i", "o", "n">>, TRUE, <<Triangles[i]>>)]
\* the ascending selections of at most MaxTris of them
MeshLists ==
    { [i \in 1..Len(sel) |-> CollisionMeshes[sel[i]]] :
        sel \in { q \in SeqsUpTo(1..Len(Triangles), MaxTris) :
                    \A i \in 1..(Len(q) - 1) : q[i] < q[i + 1] } }

\* ------------------------------------------------------- collider factory
\* a slip: the exclusion compares without lower-casing
IsExcludedCaseSensitive(name, excludeNames) ==
    \E i \in 1..Len(excludeNames) : Includes(name, excludeNames[i])
\* isExcluded of buildCollider
IsExcluded(name, excludeNames) ==
    \E i \in 1..Len(excludeNames) :
        Includes(ToLowerCase(name), ToLowerCase(excludeNames[i]))
\* isIncluded of buildCollider
IsIncluded(name, includeNames) ==
    \E i \in 1..Len(includeNames) :
        Includes(ToLowerCase(name), ToLowerCase(includeNames[i]))
\* the callback of group.traverse: whether the child is pushed on meshes
Selected(child, includeNames, excludeNames) ==
    IF ~child.isMesh THEN FALSE
    ELSE IF IsExcluded(child.name, excludeNames) THEN FALSE
    ELSE IF Len(includeNames) > 0 /\ ~IsIncluded(child.name, includeNames) THEN FALSE
    ELSE TRUE
\* group.traverse(...): the selected children in traversal order
RECURSIVE Traverse(_, _, _)
Traverse(group, includeNames, excludeNames) ==
    IF group = << >> THEN << >>
    ELSE (IF Selected(Head(group), includeNames, excludeNames)
          THEN <<Head(group)>> ELSE << >>)
         \o Traverse(Tail(group), includeNames, excludeNames)
\* StaticGeometryGenerator.generate(): the meshes' triangles, one soup
RECURSIVE Generate(_)
Generate(meshes) ==
    IF meshes = << >> THEN << >> ELSE Head(meshes).tris \o Generate(Tail(meshes))

\* MeshBVH: the triangles in the builder's order, cut into leaves; cut holds
\* the positions after which a new leaf starts.  The builder's choices are
\* not fixed here: any order and any cut.
BVHs(n) ==
    { [order |-> p, cut |-> c] :
        p \in { q \in [1..n -> 1..n] : \A i, j \in 1..n : q[i] = q[j] => i = j },
        c \in SUBSET (1..(n - 1)) }
\* new Mesh(mergedGeometry) with boundsTree attached and visible = false
NewCollider(mergedGeometry, bvh) ==
    [geometry |-> [tris |-> mergedGeometry, boundsTree |-> bvh],
     matrixWorld |-> Identity, visible |-> FALSE]
\* a mesh list as a JavaScript value: an array, or null / undefined
Arr(items) == [array |-> TRUE, items |-> items]
NullArr == [array |-> FALSE, items |-> << >>]
\* a slip: the factories test for null only, not for an empty list
NoMeshesNullOnly(meshes) == ~meshes.array
\* the test both factories make before building:
\* meshes.length === 0, and !meshes || meshes.length === 0
NoMeshes(meshes) == ~meshes.array \/ Len(meshes.items) = 0
\* the tail shared by buildCollider and buildColliderFromMeshes
BuildFrom(meshes, bvh) ==
    IF NoMeshes(meshes) THEN Null ELSE NewCollider(Generate(meshes.items), bvh)
\* a Mesh that never went through a factory: no boundsTree on its geometry
PlainMesh ==
    [geometry |-> [tris |-> <<WallE50>>, boundsTree |-> Null],
     matrixWorld |-> Identity, visible |-> TRUE]

\* ------------------------------------------------------------ settings
\* kartColliderSettings
kartColliderSettings ==
    [radius |-> 8 * Tenth, height |-> 10 * Tenth, pushOutMultiplier |-> Unit]
SettingsSet ==
    { kartColliderSettings,
      [radius |-> 8 * Tenth, height |-> 10 * Tenth, pushOutMultiplier |-> 2 * Unit],
      [radius |-> 5 * Tenth, height |-> 10 * Tenth, pushOutMultiplier |-> 0] }
\* the radius default of checkSimpleCollision
DefaultSimpleRadius == Unit
SimpleRadii == {DefaultSimpleRadius, 5 * Tenth}
\* the over-correction factor 1.1 of checkSimpleCollision
OverCorrect(s) == (s * 11) \div 10

\* where the karts of the model want to go, and how fast
DesiredPositions ==
    { P(45, 0, 0), P(42, 0, 0), P(40, 0, 0), P(20, 0, 0), P(45, 0, 14), P(45, 2, 0) }
CurrentPositions == { P(20, 0, 0) }
StartPositions == { P(40, 0, 0), P(30, 0, 0), P(45, 0, 14) }
Velocities == { P(10, 0, 0), P(10, 0, 5), P(-10, 1, 0) }
Translations == { P(10, 0, 0) }

\* ---------------------------------------------------------------- state
VARIABLES
    group,        \* the scene subtree given to buildCollider, in traversal order
    buildCall,    \* the factory call made, with its arguments
    meshes,       \* the meshes the factory collected
    collider,     \* the collider the factory returned
    pc,           \* where the program is
    call,         \* the resolver call in progress: its arguments
    pre,          \* the caller's objects as they were when the call began
    heap,         \* the Vector3 objects of the call, by reference
    result,       \* the result record being built
    localPos,     \* localPos of checkSimpleCollision, a reference
    tempVector, tempVector2, tempBox, tempMat, tempSegment,  \* the scratch objects
    idx,          \* the position shapecast has reached in the BVH's order
    rerun         \* the call repeats the previous one at the position it returned

vars == <<group, buildCall, meshes, collider, pc, call, pre, heap, result, localPos,
          tempVector, tempVector2, tempBox, tempMat, tempSegment, idx, rerun>>
scratch == <<tempVector, tempVector2, tempBox, tempMat, tempSegment>>
factory == <<group, buildCall, meshes, collider>>

\* +Infinity of an empty Box3
Infinity == 10000 * Unit
EmptyBox == Box(Vec(Infinity, Infinity, Infinity), Vec(-Infinity, -Infinity, -Infinity))
Line(start, end) == [start |-> start, end |-> end]
NoCall == [fn |-> "none"]
NoResult == [position |-> 0, collided |-> FALSE]

InitCommon ==
    /\ buildCall = NoCall
    /\ meshes = Arr(<< >>)
    /\ collider = Null
    /\ pc = "setup"
    /\ call = NoCall
    /\ pre = [heap |-> << >>, collider |-> Null]
    /\ heap = << >>
    /\ result = NoResult
    /\ localPos = 0
    /\ tempVector = Zero
    /\ tempVector2 = Zero
    /\ tempBox = EmptyBox
    /\ tempMat = Identity
    /\ tempSegment = Line(Zero, Zero)
    /\ idx = 0
    /\ rerun = FALSE

Init == group = << >> /\ InitCommon
InitBuild == group \in Scenes /\ InitCommon

\* ------------------------------------------------------------- factories
resolver == <<pc, call, pre, heap, result, localPos, scratch, idx, rerun>>

\* buildCollider(group, includeNames, excludeNames)
BuildCollider(inc, exc) ==
    /\ pc = "setup"
    /\ LET includeNames == IF inc.given THEN inc.names ELSE DefaultIncludeNames
           excludeNames == IF exc.given THEN exc.names ELSE DefaultExcludeNames
           found == Arr(Traverse(group, includeNames, excludeNames))
       IN  /\ meshes' = found
           /\ \E bvh \in BVHs(Len(Generate(found.items))) :
                 collider' = BuildFrom(found, bvh)
    /\ buildCall' = [fn |-> "buildCollider", includeNames |-> inc, excludeNames |-> exc]
    /\ pc' = "idle"
    /\ UNCHANGED <<group, call, pre, heap, result, localPos, scratch, idx, rerun>>

\* buildColliderFromMeshes(meshes)
BuildColliderFromMeshes(list) ==
    /\ pc = "setup"
    /\ meshes' = list
    /\ \E bvh \in BVHs(Len(Generate(list.items))) : collider' = BuildFrom(list, bvh)
    /\ buildCall' = [fn |-> "buildColliderFromMeshes"]
    /\ pc' = "idle"
    /\ UNCHANGED <<group, call, pre, heap, result, localPos, scratch, idx, rerun>>

\* the caller places the collider in the world: collider.matrixWorld
PositionCollider(t) ==
    /\ pc = "idle"
    /\ collider # Null
    /\ collider.matrixWorld = Identity
    /\ collider' = [collider EXCEPT !.matrixWorld = Translate(t)]
    /\ UNCHANGED <<group, buildCall, meshes, resolver>>

NextBuild ==
    \/ \E inc \in FilterArgs, exc \in FilterArgs : BuildCollider(inc, exc)
    \/ BuildColliderFromMeshes(Arr(Traverse(group, << >>, << >>)))
    \/ BuildColliderFromMeshes(NullArr)

SpecBuild == InitBuild /\ [][NextBuild]_vars

\* ------------------------------------------------------------- shapecast
SetMin(S) == CHOOSE m \in S : \A n \in S : m <= n
SetMax(S) == CHOOSE m \in S : \A n \in S : m >= n
NTris(c) == Len(c.geometry.tris)
\* the triangle at position i of the BVH's order
TriAt(c, i) == c.geometry.tris[c.geometry.boundsTree.order[i]]
\* the positions sharing a leaf with position i
LeafPositions(c, i) ==
    { j \in 1..NTris(c) :
        \A k \in c.geometry.boundsTree.cut : ~(Min2(i, j) <= k /\ k < Max2(i, j)) }
\* the bounding box stored with that leaf
LeafBox(c, i) ==
    LET boxes == { TriBox(TriAt(c, j)) : j \in LeafPositions(c, i) }
    IN  Box(Vec(SetMin({b.min.x : b \in boxes}), SetMin({b.min.y : b \in boxes}),
                SetMin({b.min.z : b \in boxes})),
            Vec(SetMax({b.max.x : b \in boxes}), SetMax({b.max.y : b \in boxes}),
                SetMax({b.max.z : b \in boxes})))
\* Whether shapecast hands the triangle at position i to intersectsTriangle:
\* intersectsBounds (box.intersectsBox(tempBox)) is asked for every node below
\* the root, and a leaf's box lies inside its ancestors' boxes; a tree that is
\* a single leaf is visited without being asked.  intersectsTriangle returns
\* nothing, so the traversal never stops early.
Reaches(c, box, i) ==
    \/ c.geometry.boundsTree.cut = {}
    \/ IntersectsBox(LeafBox(c, i), box)

\* ----------------------------------------------------------------- heap
\* a slip: the object itself is used where a clone was meant
CloneAlias(h, r) == [heap |-> h, ref |-> r]
\* Vector3.clone(): a new object holding the same value
Clone(h, r) == [heap |-> Append(h, h[r]), ref |-> Len(h) + 1]

\* --------------------------------------------------------- checkCollision
\* a slip: the guard forgets the boundsTree
NoColliderNullOnly(c) == c = Null
\* the guard both resolvers start with: !collider || !collider.geometry.boundsTree
NoCollider(c) == c = Null \/ c.geometry.boundsTree = Null
\* the collider object a call was given
ColliderOf(which) == IF which = "plain" THEN PlainMesh ELSE collider
\* capsuleInfo.segment moved to the desired position, in the collider's space
CapsuleSegment(desired, settings, inverse) ==
    Line(ApplyMatrix4(VAdd(Vec(0, settings.radius, 0), desired), inverse),
         ApplyMatrix4(VAdd(Vec(0, settings.height, 0), desired), inverse))
\* tempBox: the segment's box, grown by the radius
CapsuleBox(seg, radius) ==
    LET e1 == Box(VMin(EmptyBox.min, seg.start), VMax(EmptyBox.max, seg.start))
        e2 == Box(VMin(e1.min, seg.end), VMax(e1.max, seg.end))
    IN  Box(AddScalar(e2.min, -radius), AddScalar(e2.max, radius))
\* a slip: touching counts as colliding
CollidesOrTouches(distance, radius) == distance <= radius
\* distance < capsuleInfo.radius
Collides(distance, radius) == distance < radius
\* a slip: the direction points from the capsule to the triangle
PushDirectionReversed(capsulePoint, triPoint) == Normalize(VSub(triPoint, capsulePoint))
\* capsulePoint.sub(triPoint).normalize()
PushDirection(capsulePoint, triPoint) == Normalize(VSub(capsulePoint, triPoint))
\* a slip: only the start of the segment is moved
PushOutStartOnly(seg, direction, amount) ==
    Line(AddScaledVector(seg.start, direction, amount), seg.end)
\* both ends of tempSegment moved by direction * (depth * pushOutMultiplier)
PushOut(seg, direction, amount) ==
    Line(AddScaledVector(seg.start, direction, amount),
         AddScaledVector(seg.end, direction, amount))
\* a slip: the whole corrected point is written back, Y included
WriteBackAll(position, newPosition) == newPosition
\* result.position.x = newPosition.x; result.position.z = newPosition.z
WriteBack(position, newPosition) ==
    [position EXCEPT !.x = newPosition.x, !.z = newPosition.z]

\* checkCollision up to the shapecast call, on the objects of heap h
CheckCollisionBody(h, curRef, desRef, which, settings, again) ==
    LET c == ColliderOf(which)
        made == Clone(h, desRef)
    IN  /\ call' = [fn |-> "checkCollision", currentPosition |-> curRef,
                    desiredPosition |-> desRef, collider |-> which,
                    settings |-> settings]
        /\ pre' = [heap |-> h, collider |-> c]
        /\ rerun' = again
        /\ heap' = made.heap
        /\ result' = [position |-> made.ref, collided |-> FALSE]
        /\ UNCHANGED <<factory, localPos, tempVector, tempVector2>>
        /\ IF NoCollider(c)
           THEN /\ pc' = "returned"
                /\ UNCHANGED <<tempMat, tempSegment, tempBox, idx>>
           ELSE IF c = Null \/ c.geometry.boundsTree = Null
           THEN \* null is dereferenced: a TypeError
                /\ pc' = "threw"
                /\ UNCHANGED <<tempMat, tempSegment, tempBox, idx>>
           ELSE LET inverse == Invert(c.matrixWorld)
                    seg == CapsuleSegment(h[desRef], settings, inverse)
                IN  /\ tempMat' = inverse
                    /\ tempSegment' = seg
                    /\ tempBox' = CapsuleBox(seg, settings.radius)
                    /\ idx' = 1
                    /\ pc' = "cc_shapecast"

\* a call of checkCollision on two position objects of the caller
CheckCollision(cur, des, which, settings) ==
    /\ pc = "idle"
    /\ CheckCollisionBody(<<cur, des>>, 1, 2, which, settings, FALSE)

\* the caller runs checkCollision again, the returned position as both positions
CheckCollisionAgain ==
    /\ pc = "returned"
    /\ call.fn = "checkCollision"
    /\ ~rerun
    /\ CheckCollisionBody(heap, result.position, result.position, call.collider,
                          call.settings, TRUE)

\* shapecast comes to the next triangle: intersectsTriangle, if it is reached
CheckCollisionVisit ==
    /\ pc = "cc_shapecast"
    /\ idx <= NTris(ColliderOf(call.collider))
    /\ LET c == ColliderOf(call.collider)
           found == ClosestPointToSegment(TriAt(c, idx), tempSegment)
           depth == call.settings.radius - found.distance
           direction == PushDirection(found.capsulePoint, found.triPoint)
       IN  IF ~Reaches(c, tempBox, idx)
           THEN UNCHANGED <<tempVector, tempVector2, tempSegment, result>>
           ELSE /\ tempVector' = found.triPoint
                /\ IF Collides(found.distance, call.settings.radius)
                   THEN /\ tempVector2' = direction
                        /\ tempSegment' =
                              PushOut(tempSegment, direction,
                                      Mul(depth, call.settings.pushOutMultiplier))
                        /\ result' = [result EXCEPT !.collided = TRUE]
                   ELSE /\ tempVector2' = found.capsulePoint
                        /\ UNCHANGED <<tempSegment, result>>
    /\ idx' = idx + 1
    /\ UNCHANGED <<factory, pc, call, pre, heap, localPos, tempBox, tempMat, rerun>>

\* after the traversal: the corrected X and Z, and the return
CheckCollisionReturn ==
    /\ pc = "cc_shapecast"
    /\ idx > NTris(ColliderOf(call.collider))
    /\ LET newPosition ==
               ApplyMatrix4(tempSegment.start, ColliderOf(call.collider).matrixWorld)
       IN  heap' = IF result.collided
                   THEN [heap EXCEPT ![result.position] = WriteBack(@, newPosition)]
                   ELSE heap
    /\ pc' = "returned"
    /\ UNCHANGED <<factory, call, pre, result, localPos, scratch, idx, rerun>>

\* --------------------------------------------------- checkSimpleCollision
\* Box3.setFromCenterAndSize
SetFromCenterAndSize(center, size) ==
    Box(Vec(center.x - size.x \div 2, center.y - size.y \div 2, center.z - size.z \div 2),
        Vec(center.x + size.x \div 2, center.y + size.y \div 2, center.z + size.z \div 2))
\* distToTri < radius * 2
WithinInfluence(p, triCenter, radius) ==
    DistanceToSquared(p, triCenter) < (radius * 2) * (radius * 2)
\* normal.applyMatrix4(collider.matrixWorld).normalize()
PushNormal(normal, matrixWorld) == Normalize(ApplyMatrix4(normal, matrixWorld))
\* result.velocity.addScaledVector(n, -result.velocity.dot(n) * 1.1)
RemoveAlong(velocity, n) == AddScaledVector(velocity, n, OverCorrect(-Dot(velocity, n)))

\* checkSimpleCollision up to the shapecast call
CheckSimpleCollision(position, velocity, which, radius) ==
    /\ pc = "idle"
    /\ LET c == ColliderOf(which)
           h == <<position, velocity>>
           rp == Clone(h, 1)
           rv == Clone(rp.heap, 2)
           np == Clone(rv.heap, 1)
           moved == [np.heap EXCEPT ![np.ref] = VAdd(@, np.heap[2])]
           lp == Clone(moved, np.ref)
       IN  /\ call' = [fn |-> "checkSimpleCollision", position |-> 1, velocity |-> 2,
                       collider |-> which, radius |-> radius]
           /\ pre' = [heap |-> h, collider |-> c]
           /\ UNCHANGED <<factory, tempVector, tempVector2, tempSegment, rerun>>
           /\ IF NoCollider(c)
              THEN /\ heap' = [rv.heap EXCEPT ![rp.ref] = VAdd(@, rv.heap[2])]
                   /\ result' = [position |-> rp.ref, velocity |-> rv.ref,
                                 collided |-> FALSE]
                   /\ pc' = "returned"
                   /\ UNCHANGED <<localPos, tempMat, tempBox, idx>>
              ELSE IF c = Null \/ c.geometry.boundsTree = Null
              THEN \* null is dereferenced: a TypeError
                   /\ heap' = rv.heap
                   /\ result' = [position |-> rp.ref, velocity |-> rv.ref,
                                 collided |-> FALSE]
                   /\ pc' = "threw"
                   /\ UNCHANGED <<localPos, tempMat, tempBox, idx>>
              ELSE LET inverse == Invert(c.matrixWorld)
                       local == ApplyMatrix4(lp.heap[lp.ref], inverse)
                   IN  /\ heap' = [lp.heap EXCEPT ![lp.ref] = local]
                       /\ result' = [position |-> rp.ref, velocity |-> rv.ref,
                                     collided |-> FALSE]
                       /\ localPos' = lp.ref
                       /\ tempMat' = inverse
                       /\ tempBox' = SetFromCenterAndSize(
                                         local, Vec(radius * 2, radius * 2, radius * 2))
                       /\ idx' = 1
                       /\ pc' = "sc_shapecast"

\* shapecast comes to the next triangle: intersectsTriangle, if it is reached
CheckSimpleVisit ==
    /\ pc = "sc_shapecast"
    /\ idx <= NTris(ColliderOf(call.collider))
    /\ LET c == ColliderOf(call.collider)
           tri == TriAt(c, idx)
           n == PushNormal(GetNormal(tri), c.matrixWorld)
       IN  IF ~Reaches(c, tempBox, idx)
           THEN UNCHANGED <<tempVector, tempVector2, heap, result>>
           ELSE /\ tempVector2' = GetMidpoint(tri)
                /\ IF WithinInfluence(heap[localPos], GetMidpoint(tri), call.radius)
                   THEN /\ tempVector' = n
                        /\ heap' = [heap EXCEPT ![result.velocity] = RemoveAlong(@, n)]
                        /\ result' = [result EXCEPT !.collided = TRUE]
                   ELSE /\ tempVector' = GetNormal(tri)
                        /\ UNCHANGED <<heap, result>>
    /\ idx' = idx + 1
    /\ UNCHANGED <<factory, pc, call, pre, localPos, tempBox, tempMat, tempSegment, rerun>>

\* result.position.add(result.velocity), and the return
CheckSimpleReturn ==
    /\ pc = "sc_shapecast"
    /\ idx > NTris(ColliderOf(call.collider))
    /\ heap' = [heap EXCEPT ![result.position] = VAdd(@, heap[result.velocity])]
    /\ pc' = "returned"
    /\ UNCHANGED <<factory, call, pre, result, localPos, scratch, idx, rerun>>

\* ------------------------------------------------------- specifications
Next ==
    \/ \E list \in {NullArr} \cup {Arr(l) : l \in MeshLists} : BuildColliderFromMeshes(list)
    \/ \E t \in Translations : PositionCollider(t)
    \/ \E cur \in CurrentPositions, des \in DesiredPositions,
          which \in {"built", "plain"}, settings \in SettingsSet :
            CheckCollision(cur, des, which, settings)
    \/ CheckCollisionVisit
    \/ CheckCollisionReturn
    \/ CheckCollisionAgain
    \/ \E position \in StartPositions, velocity \in Velocities,
          which \in {"built", "plain"}, radius \in SimpleRadii :
            CheckSimpleCollision(position, velocity, which, radius)
    \/ CheckSimpleVisit
    \/ CheckSimpleReturn

Spec == Init /\ [][Next]_vars

\* ------------------------------------------------- exactness of the model
\* twice the signed area of (p, q, r) in the plane of two coordinates
Area2(px, py, qx, qy, rx, ry) == (qx - px) * (ry - py) - (qy - py) * (rx - px)
\* the point (u, v) lies inside the triangle (a, b, c) of the plane, farther
\* than d from each edge (|edge| is bounded by its taxicab length)
DeepInside(u, v, ax, ay, bx, by, cx, cy, d) ==
    LET s == Sign(Area2(ax, ay, bx, by, cx, cy))
    IN  /\ s * Area2(ax, ay, bx, by, u, v) > d * (Abs(bx - ax) + Abs(by - ay))
        /\ s * Area2(bx, by, cx, cy, u, v) > d * (Abs(cx - bx) + Abs(cy - by))
        /\ s * Area2(cx, cy, ax, ay, u, v) > d * (Abs(ax - cx) + Abs(ay - cy))
\* the closest pair of triangle t and the vertical segment seg is an end of
\* the segment and its projection on the triangle's plane
ProjectionExact(t, seg) ==
    LET d == Min2(Length(VSub(seg.start, ClosestPointToPoint(t, seg.start))),
                  Length(VSub(seg.end, ClosestPointToPoint(t, seg.end))))
    IN  IF PlaneAxis(t) = "x"
        THEN /\ DeepInside(seg.start.y, seg.start.z, t.a.y, t.a.z, t.b.y, t.b.z, t.c.y, t.c.z, 0)
             /\ DeepInside(seg.end.y, seg.end.z, t.a.y, t.a.z, t.b.y, t.b.z, t.c.y, t.c.z, 0)
        ELSE IF PlaneAxis(t) = "z"
        THEN /\ DeepInside(seg.start.x, seg.start.y, t.a.x, t.a.y, t.b.x, t.b.y, t.c.x, t.c.y, 0)
             /\ DeepInside(seg.end.x, seg.end.y, t.a.x, t.a.y, t.b.x, t.b.y, t.c.x, t.c.y, 0)
        ELSE DeepInside(seg.start.x, seg.start.z, t.a.x, t.a.z, t.b.x, t.b.z, t.c.x, t.c.z, d)
\* every root and normalisation the code takes in this state is exact
GeometryExact ==
    /\ pc = "cc_shapecast" =>
          /\ tempSegment.start.x = tempSegment.end.x
          /\ tempSegment.start.z = tempSegment.end.z
          /\ \A i \in 1..NTris(ColliderOf(call.collider)) :
                ProjectionExact(TriAt(ColliderOf(call.collider), i), tempSegment)
    /\ pc = "sc_shapecast" =>
          \A i \in idx..NTris(ColliderOf(call.collider)) :
             LET c == ColliderOf(call.collider)
                 tri == TriAt(c, i)
                 mid == GetMidpoint(tri)
             IN  /\ AxisAligned(Cross(VSub(tri.c, tri.b), VSub(tri.a, tri.b)))
                 /\ VAdd(VAdd(tri.a, tri.b), tri.c) = Vec(3 * mid.x, 3 * mid.y, 3 * mid.z)
                 /\ WithinInfluence(heap[localPos], mid, call.radius) =>
                       /\ AxisAligned(ApplyMatrix4(GetNormal(tri), c.matrixWorld))
                       /\ Dot(heap[result.velocity],
                              PushNormal(GetNormal(tri), c.matrixWorld)) % 10 = 0

\* ================================================================ claims
Returned(fn) == pc = "returned" /\ call.fn = fn
\* the desired position as the caller passed it
Desired == pre.heap[call.desiredPosition]
\* the capsule segment the traversal starts from, and its broad-phase box
Segment0 == CapsuleSegment(Desired, call.settings, Invert(pre.collider.matrixWorld))
Box0 == CapsuleBox(Segment0, call.settings.radius)
HasTree(c) == c # Null /\ c.geometry.boundsTree # Null

\* C1: whatever checkCollision finds (no collider, no BVH, no hit, any hits in
\* any order), the y of the returned position is the y of desiredPosition.
C1_YFromDesired ==
    Returned("checkCollision") => heap[result.position].y = Desired.y
C1_Witness ==
    /\ Returned("checkCollision")
    /\ result.collided
    /\ heap[result.position].x # Desired.x
    /\ tempSegment.start.y # Desired.y + call.settings.radius

\* C2: with the collider null or without a BVH neither resolver fails:
\* checkCollision returns desiredPosition and collided = false,
\* checkSimpleCollision returns position + velocity, the velocity, collided = false.
C2_NoColliderPassThrough ==
    (call.fn # "none" /\ ~HasTree(pre.collider)) =>
        /\ pc = "returned"
        /\ ~result.collided
        /\ call.fn = "checkCollision" => heap[result.position] = Desired
        /\ call.fn = "checkSimpleCollision" =>
              /\ heap[result.position] =
                    VAdd(pre.heap[call.position], pre.heap[call.velocity])
              /\ heap[result.velocity] = pre.heap[call.velocity]
C2_Witness ==
    /\ Returned("checkSimpleCollision")
    /\ pre.collider = PlainMesh
    /\ heap[result.position] # pre.heap[call.position]

\* C3: both factories return null exactly when the mesh set they end up with
\* is empty, and otherwise a collider whose geometry carries a BVH over at
\* least one mesh; neither raises an error.
C3_NullIffNoMeshes ==
    buildCall.fn # "none" =>
        /\ pc = "idle"
        /\ collider = Null <=> (~meshes.array \/ meshes.items = << >>)
        /\ collider # Null =>
              /\ collider.geometry.boundsTree # Null
              /\ Len(collider.geometry.tris) >= Len(meshes.items)
              /\ Len(meshes.items) > 0
C3_Witness ==
    /\ buildCall.fn = "buildCollider"
    /\ \E i \in 1..Len(group) : group[i].isMesh
    /\ collider = Null

\* C4: buildCollider selects a mesh exactly when its name contains, ignoring
\* case, no entry of excludeNames and (includeNames is empty or the name
\* contains, ignoring case, an entry of includeNames); exclusion wins, and by
\* default exactly the meshes named "...ground..." are left out.
SameLetter(a, b) ==
    a = b \/ \E i \in 1..Len(UpperChars) : {a, b} = {UpperChars[i], LowerChars[i]}
ContainsIgnoringCase(name, entry) ==
    \E off \in 0..(Len(name) - Len(entry)) :
        \A j \in 1..Len(entry) : SameLetter(name[off + j], entry[j])
ClaimedSelected(node, inc, exc) ==
    /\ node.isMesh
    /\ ~\E i \in 1..Len(exc) : ContainsIgnoringCase(node.name, exc[i])
    /\ inc = << >> \/ \E i \in 1..Len(inc) : ContainsIgnoringCase(node.name, inc[i])
C4_FilterByName ==
    buildCall.fn = "buildCollider" =>
        LET inc == IF buildCall.includeNames.given
                   THEN buildCall.includeNames.names ELSE << >>
            exc == IF buildCall.excludeNames.given
                   THEN buildCall.excludeNames.names
                   ELSE << <<"g", "r", "o", "u", "n", "d">> >>
        IN  meshes = Arr(SelectSeq(group, LAMBDA node : ClaimedSelected(node, inc, exc)))
C4_Witness ==
    /\ buildCall.fn = "buildCollider"
    /\ ~buildCall.excludeNames.given
    /\ buildCall.includeNames = Given(<< <<"W", "A", "L", "L">> >>)
    /\ Len(group) = 2
    /\ group[1].name = <<"G", "R", "O", "U", "N", "D", "w", "a", "l", "l">>
    /\ group[1].isMesh
    /\ meshes = Arr(<<group[2]>>)

\* C5: if every triangle is pruned by the broad phase or lies at distance >=
\* radius from the capsule segment (exactly radius included), checkCollision
\* returns collided = false and desiredPosition itself, in all three components.
NoTriangleInReach ==
    \A i \in 1..NTris(pre.collider) :
        \/ ~Reaches(pre.collider, Box0, i)
        \/ ClosestPointToSegment(TriAt(pre.collider, i), Segment0).distance
              >= call.settings.radius
C5_NoHitNoChange ==
    (Returned("checkCollision") /\ HasTree(pre.collider) /\ NoTriangleInReach) =>
        /\ ~result.collided
        /\ heap[result.position] = Desired
C5_Witness ==
    /\ Returned("checkCollision")
    /\ HasTree(pre.collider)
    /\ NoTriangleInReach
    /\ \E i \in 1..NTris(pre.collider) : ~Reaches(pre.collider, Box0, i)
    /\ \E i \in 1..NTris(pre.collider) :
          /\ Reaches(pre.collider, Box0, i)
          /\ ClosestPointToSegment(TriAt(pre.collider, i), Segment0).distance
                = call.settings.radius

\* C6: checkCollision run again with the position it returned as both
\* currentPosition and desiredPosition, same collider and settings with
\* pushOutMultiplier >= 1.0, reports collided = false.
C6_RerunDoesNotCollide ==
    (Returned("checkCollision") /\ rerun /\ call.settings.pushOutMultiplier >= Unit) =>
        ~result.collided

\* C7: one wall triangle in the plane x = 5, radius 0.8, pushOutMultiplier
\* 1.0, identity transform, desired x = 4.5.
WallScenario ==
    /\ Returned("checkCollision")
    /\ ~rerun
    /\ HasTree(pre.collider)
    /\ pre.collider.geometry.tris = <<WallE50>>
    /\ pre.collider.matrixWorld = Identity
    /\ call.settings.radius = 8 * Tenth
    /\ call.settings.pushOutMultiplier = Unit
    /\ Desired.x = 45 * Tenth
\* C7 as stated: collided = true and the corrected x is 5.8.
C7_PushedToFiveEight ==
    WallScenario => (result.collided /\ heap[result.position].x = 58 * Tenth)
\* C7 amended: collided = true and the corrected x is 4.2, at distance radius
\* from the wall on the side the capsule came from; y and z are the desired ones.
C7_PushedBackToFourTwo ==
    WallScenario =>
        /\ result.collided
        /\ heap[result.position] = [Desired EXCEPT !.x = 42 * Tenth]
        /\ 50 * Tenth - heap[result.position].x = call.settings.radius
C7_Witness == WallScenario /\ result.collided

\* C8: in checkSimpleCollision a triangle whose midpoint is nearer than
\* 2 x radius to the tentative local position takes the velocity component
\* along its unit normal n out of the velocity, over-corrected by 1.1
\* (v - 1.1 (v.n) n), and sets collided.  Stated for colliders of one triangle.
ClaimedRemoval(v, n) ==
    LET vn == (v.x * n.x + v.y * n.y + v.z * n.z) \div Unit
    IN  Vec(v.x - (11 * vn * n.x) \div (10 * Unit),
            v.y - (11 * vn * n.y) \div (10 * Unit),
            v.z - (11 * vn * n.z) \div (10 * Unit))
C8_NormalComponentRemoved ==
    (/\ Returned("checkSimpleCollision")
     /\ HasTree(pre.collider)
     /\ NTris(pre.collider) = 1
     /\ WithinInfluence(heap[localPos], GetMidpoint(pre.collider.geometry.tris[1]),
                        call.radius)) =>
        /\ result.collided
        /\ heap[result.velocity] =
              ClaimedRemoval(pre.heap[call.velocity],
                             GetNormal(pre.collider.geometry.tris[1]))

\* C9: the resolvers leave what they are given as it was: every object that
\* existed when the call began holds its value, the collider is unchanged,
\* and the position and velocity of the result are new objects.
C9_InputsUntouched ==
    call.fn # "none" =>
        /\ \A r \in 1..Len(pre.heap) : heap[r] = pre.heap[r]
        /\ ColliderOf(call.collider) = pre.collider
        /\ result.position > Len(pre.heap)
        /\ call.fn = "checkSimpleCollision" =>
              /\ result.velocity > Len(pre.heap)
              /\ result.velocity # result.position
C9_Witness ==
    /\ Returned("checkSimpleCollision")
    /\ result.collided
    /\ heap[result.velocity] # pre.heap[call.velocity]
    /\ heap[result.position] # pre.heap[call.position]

\* C10: a visited triangle nearer than radius to the segment as it is now
\* moves both ends of the segment by the same vector; a triangle visited
\* later is measured against the moved segment.
\* the step shapecast is about to take on a triangle it hands over
AtTriangle ==
    /\ pc = "cc_shapecast"
    /\ idx <= NTris(pre.collider)
    /\ Reaches(pre.collider, tempBox, idx)
Found == ClosestPointToSegment(TriAt(pre.collider, idx), tempSegment)
Moved(seg, v) == Line(VAdd(seg.start, v), VAdd(seg.end, v))
PushLength == Mul(call.settings.radius - Found.distance, call.settings.pushOutMultiplier)
UnitVectors ==
    { Vec(Unit, 0, 0), Vec(-Unit, 0, 0), Vec(0, Unit, 0), Vec(0, -Unit, 0),
      Vec(0, 0, Unit), Vec(0, 0, -Unit) }
\* u points from the triangle's closest point to the segment's closest point
PointsAway(u) ==
    VSub(Found.capsulePoint, Found.triPoint) =
        Vec(Mul(u.x, Found.distance), Mul(u.y, Found.distance), Mul(u.z, Found.distance))
====
